---- MODULE Spec2Model ----
(***************************************************************************)
(* Line-delimited JSON-RPC dispatch of the two Node servers:               *)
(*   simple server   (src/unnamed/part_000)                                *)
(*   prompts server  (src/examples/prompts-server/index.js)                *)
(* The model follows the event-loop structure of the code: readline emits  *)
(* the 'line' events of one input chunk synchronously, the continuation    *)
(* after `await tool.handler(parsed)` is a microtask that runs once the    *)
(* chunk's callback has returned, and a rejected promise nobody handles is *)
(* processed after the microtasks have drained.                            *)
(***************************************************************************)
EXTENDS Integers, Sequences, FiniteSets, TLC

\* Number of input lines one run delivers.
MaxLines == 3

(***************************************************************************)
(* JavaScript values.  Scalars are records of one shape; objects carry the *)
(* properties the code reads.                                              *)
(***************************************************************************)
Undefined == [t |-> "undefined", n |-> 0, s |-> ""]
Null == [t |-> "null", n |-> 0, s |-> ""]
Num(k) == [t |-> "number", n |-> k, s |-> ""]
Str(x) == [t |-> "string", n |-> 0, s |-> x]

\* String(v) as used for property keys and template literals.
ToStr(v) ==
  CASE v.t = "undefined" -> "undefined"
    [] v.t = "null" -> "null"
    [] v.t = "number" -> ToString(v.n)
    [] OTHER -> v.s

\* An object with no own properties, and a missing arguments/variables value.
EmptyFields == [k \in {} |-> Undefined]
NoArgs == [t |-> "undefined", f |-> EmptyFields]
EmptyObject == [t |-> "object", f |-> EmptyFields]
Args(fields) == [t |-> "object", f |-> fields]
Object(fields) == [t |-> "object", f |-> fields]

\* obj[key] for an arguments object: undefined when the key is absent.
Get(fields, key) == IF key \in DOMAIN fields THEN fields[key] ELSE Undefined

\* params of a request: absent, or an object with name and arguments/variables.
NoParams == [t |-> "undefined", name |-> Undefined, arguments |-> NoArgs]
Params(name, args) == [t |-> "object", name |-> name, arguments |-> args]

\* `params || {}`
ParamsOrEmpty(params) ==
  IF params.t = "object" THEN params
  ELSE [t |-> "object", name |-> Undefined, arguments |-> NoArgs]

\* `variables || {}`
VariablesOrEmpty(variables) ==
  IF variables.t = "object" THEN variables ELSE EmptyObject

\* A parsed message: null, a number, a string, or an object.
Message(t, id, method, params) ==
  [t |-> t, id |-> id, method |-> method, params |-> params]
Prim(t) == Message(t, Undefined, Undefined, NoParams)
Obj(id, method, params) == Message("object", id, method, params)

(***************************************************************************)
(* zod: z.object({...}).parse(value)                                       *)
(***************************************************************************)
Field(type, optional, min) == [type |-> type, optional |-> optional, min |-> min]

Issue(code, path) == [code |-> code, path |-> path]

\* The issue a single key raises, as a sequence of zero or one issues.
FieldIssues(schema, fields, key) ==
  LET v == Get(fields, key)
      f == schema[key]
  IN IF v.t = "undefined" /\ f.optional THEN <<>>
     ELSE IF v.t # f.type THEN <<Issue("invalid_type", key)>>
     ELSE IF f.type = "string" /\ Len(v.s) < f.min THEN <<Issue("too_small", key)>>
     ELSE <<>>

RECURSIVE IssuesOver(_, _, _)
IssuesOver(schema, fields, keys) ==
  IF keys = <<>> THEN <<>>
  ELSE FieldIssues(schema, fields, Head(keys)) \o IssuesOver(schema, fields, Tail(keys))

\* schema.parse(value): the parsed object (unknown keys stripped, absent
\* optional keys left out) or the issues of the ZodError thrown.
ZodParse(schema, keys, value) ==
  IF value.t # "object"
    THEN [ok |-> FALSE, issues |-> <<Issue("invalid_type", "")>>, parsed |-> EmptyFields]
    ELSE LET issues == IssuesOver(schema, value.f, keys)
         IN IF issues # <<>>
              THEN [ok |-> FALSE, issues |-> issues, parsed |-> EmptyFields]
              ELSE [ok |-> TRUE, issues |-> <<>>,
                    parsed |-> [k \in {x \in DOMAIN schema : x \in DOMAIN value.f}
                                  |-> value.f[k]]]

\* ZodError.message: the issues rendered as text.
RECURSIVE ZodMessage(_)
ZodMessage(issues) ==
  IF issues = <<>> THEN ""
  ELSE Head(issues).code \o "@" \o Head(issues).path \o ";" \o ZodMessage(Tail(issues))

(***************************************************************************)
(* Registries                                                              *)
(***************************************************************************)
Servers == {"simple", "prompts"}

\* Keys every object literal inherits from Object.prototype: `tools[name]`
\* and `promptTemplates[name]` find these too.
ObjectPrototypeKeys ==
  {"constructor", "toString", "valueOf", "hasOwnProperty", "__proto__"}

ToolEntry(description, schema, keys) ==
  [description |-> description, schema |-> schema, keys |-> keys]

\* simple server: tools
simpleTools ==
  [echo |-> ToolEntry("Echo back a message",
                      [message |-> Field("string", FALSE, 0)], <<"message">>),
   add |-> ToolEntry("Add two numbers",
                     [a |-> Field("number", FALSE, 0), b |-> Field("number", FALSE, 0)],
                     <<"a", "b">>)]
simpleToolNames == <<"echo", "add">>

\* prompts server: tools
promptsTools ==
  [markdown_summary |->
     ToolEntry("Summarize a block of markdown text (simulated)",
               [content |-> Field("string", FALSE, 1)], <<"content">>)]
promptsToolNames == <<"markdown_summary">>

tools(server) == IF server = "simple" THEN simpleTools ELSE promptsTools
toolNames(server) == IF server = "simple" THEN simpleToolNames ELSE promptsToolNames

Lit(x) == [var |-> FALSE, x |-> x]
Var(x) == [var |-> TRUE, x |-> x]

\* prompts server: promptTemplates
promptTemplates ==
  [qa |-> [description |-> "Simple Q&A wrapper",
           inputSchema |-> [question |-> Field("string", FALSE, 0),
                            context |-> Field("string", TRUE, 0)],
           keys |-> <<"question", "context">>,
           template |-> <<Lit("You are a helpful system. Answer the user question.\nContext: "),
                          Var("context"), Lit("\nQuestion: "), Var("question"),
                          Lit("\nAnswer:")>>],
   refactor |-> [description |-> "Refactor function prompt",
                 inputSchema |-> [code |-> Field("string", FALSE, 0),
                                  goal |-> Field("string", FALSE, 0)],
                 keys |-> <<"code", "goal">>,
                 template |-> <<Lit("Refactor the following code to achieve: "),
                                Var("goal"), Lit("\n\nCode:\n"), Var("code"),
                                Lit("\n\nRefactored:")>>]]
promptNames == <<"qa/basic", "refactor/function">>

\* The registry key of a prompt name.
PromptKey(name) == IF name = "qa/basic" THEN "qa" ELSE "refactor"

\* registry[name]: an own entry, a truthy inherited property, or undefined.
Lookup(own, name) ==
  LET key == ToStr(name)
  IN IF \E i \in 1..Len(own) : own[i] = key THEN "own"
     ELSE IF key \in ObjectPrototypeKeys THEN "inherited"
     ELSE "undefined"

(***************************************************************************)
(* Handlers                                                                *)
(***************************************************************************)
IsSpace(c) == c \in {" ", "\n", "\t", "\r"}

\* s.split(/\s+/): the pieces between runs of white space, the empty piece
\* before a leading run and after a trailing run included.
RECURSIVE SplitFrom(_, _, _)
SplitFrom(s, cur, inGap) ==
  IF s = "" THEN <<cur>>
  ELSE IF IsSpace(Head(s))
    THEN IF inGap THEN SplitFrom(Tail(s), cur, TRUE)
         ELSE <<cur>> \o SplitFrom(Tail(s), "", TRUE)
    ELSE SplitFrom(Tail(s), cur \o Head(s), FALSE)
SplitWhitespace(s) == SplitFrom(s, "", FALSE)

\* words.join(' ')
RECURSIVE JoinSpace(_)
JoinSpace(words) ==
  IF words = <<>> THEN ""
  ELSE IF Len(words) = 1 THEN words[1]
  ELSE words[1] \o " " \o JoinSpace(Tail(words))

\* slice(0, 12) in markdown_summary
SummaryWords == 12

Slice(words, n) == SubSeq(words, 1, IF Len(words) < n THEN Len(words) ELSE n)

\* tool.handler(parsed)
echoHandler(parsed) ==
  Object([echoed |-> parsed["message"], length |-> Num(Len(parsed["message"].s))])
\* Variant of addHandler: the difference in place of the sum.
addHandlerMinus(parsed) == Object([sum |-> Num(parsed["a"].n - parsed["b"].n)])
addHandler(parsed) == Object([sum |-> Num(parsed["a"].n + parsed["b"].n)])
markdownSummaryHandler(parsed) ==
  Object([summary |->
     Str(JoinSpace(Slice(SplitWhitespace(parsed["content"].s), SummaryWords)) \o "...")])

Handler(name, parsed) ==
  CASE name = "echo" -> echoHandler(parsed)
    [] name = "add" -> addHandler(parsed)
    [] OTHER -> markdownSummaryHandler(parsed)

\* Mustache's escaping of a rendered value (the grave accent, which Mustache
\* also escapes, is not a character of any modelled input).
EscapeChar(c) ==
  CASE c = "&" -> "&amp;"
    [] c = "<" -> "&lt;"
    [] c = ">" -> "&gt;"
    [] c = "\"" -> "&quot;"
    [] c = "'" -> "&#39;"
    [] c = "/" -> "&#x2F;"
    [] c = "=" -> "&#x3D;"
    [] OTHER -> c

RECURSIVE EscapeHtml(_)
EscapeHtml(s) == IF s = "" THEN "" ELSE EscapeChar(Head(s)) \o EscapeHtml(Tail(s))

\* Mustache.render(template, view): a variable the view lacks renders empty.
RECURSIVE MustacheRender(_, _)
MustacheRender(template, view) ==
  IF template = <<>> THEN ""
  ELSE LET seg == Head(template)
           text == IF ~seg.var THEN seg.x
                   ELSE IF seg.x \in DOMAIN view THEN EscapeHtml(ToStr(view[seg.x]))
                   ELSE ""
       IN text \o MustacheRender(Tail(template), view)

\* JS arrays.
List(items) == [t |-> "array", items |-> items]

\* listCapabilities() of the simple server
simpleListCapabilities ==
  [i \in 1..Len(simpleToolNames) |->
     [name |-> simpleToolNames[i],
      description |-> simpleTools[simpleToolNames[i]].description,
      inputSchema |-> EmptyObject]]

\* Object.entries(tools).map(...) and Object.entries(promptTemplates).map(...)
promptsToolList ==
  [i \in 1..Len(promptsToolNames) |->
     [name |-> promptsToolNames[i],
      description |-> promptsTools[promptsToolNames[i]].description]]
promptsPromptList ==
  [i \in 1..Len(promptNames) |->
     [name |-> promptNames[i],
      description |-> promptTemplates[PromptKey(promptNames[i])].description]]

\* listCapabilities() of the prompts server
promptsListCapabilities ==
  Object([tools |-> List(promptsToolList), prompts |-> List(promptsPromptList)])

(***************************************************************************)
(* Envelopes and send                                                      *)
(***************************************************************************)
NoResult == [t |-> "undefined"]
NoError == [keys |-> {}, code |-> 0, message |-> "", data |-> <<>>]

\* { code, message } and { code, message, data }
ErrorObject(code, message) ==
  [keys |-> {"code", "message"}, code |-> code, message |-> message, data |-> <<>>]
ErrorObjectData(code, message, data) ==
  [keys |-> {"code", "message", "data"}, code |-> code, message |-> message, data |-> data]

\* { jsonrpc: '2.0', id, result } and { jsonrpc: '2.0', id, error }
ResultEnvelope(id, result) ==
  [keys |-> {"jsonrpc", "id", "result"}, id |-> id, result |-> result,
   error |-> NoError, notice |-> ""]
\* Variant of ErrorEnvelope: a null result sent along with the error.
ErrorEnvelopeWithResult(id, error) ==
  [keys |-> {"jsonrpc", "id", "result", "error"}, id |-> id, result |-> [t |-> "null"],
   error |-> error, notice |-> ""]
ErrorEnvelope(id, error) ==
  [keys |-> {"jsonrpc", "id", "error"}, id |-> id, result |-> NoResult,
   error |-> error, notice |-> ""]
NoticeObject(text) ==
  [keys |-> {"notice"}, id |-> Undefined, result |-> NoResult,
   error |-> NoError, notice |-> text]

\* JSON.stringify(obj): a key whose value is undefined is left out.
Stringify(obj) ==
  [obj EXCEPT !.keys = {k \in obj.keys :
                          /\ (k = "id" => obj.id.t # "undefined")
                          /\ (k = "result" => obj.result.t # "undefined")}]

(***************************************************************************)
(* handleRequest                                                           *)
(***************************************************************************)
Return(value) == [k |-> "return", value |-> value, message |-> "", zod |-> FALSE, errors |-> <<>>]
Await(value) == [k |-> "await", value |-> value, message |-> "", zod |-> FALSE, errors |-> <<>>]
Throw(message) == [k |-> "throw", value |-> NoResult, message |-> message, zod |-> FALSE, errors |-> <<>>]
ThrowZod(issues) ==
  [k |-> "throw", value |-> NoResult, message |-> ZodMessage(issues), zod |-> TRUE,
   errors |-> issues]

ReadingParse == "Cannot read properties of undefined (reading 'parse')"

\* case 'tool.call' of both servers, up to the await.
ToolCall(srv, params) ==
  LET p == ParamsOrEmpty(params)
      name == p.name
      args == p.arguments
      tool == Lookup(toolNames(srv), name)
  IN IF tool = "undefined" THEN Throw("Unknown tool: " \o ToStr(name))
     ELSE IF tool = "inherited" THEN Throw(ReadingParse)
     ELSE LET entry == tools(srv)[ToStr(name)]
              parsed == ZodParse(entry.schema, entry.keys, args)
          IN IF ~parsed.ok THEN ThrowZod(parsed.issues)
             ELSE Await(Handler(ToStr(name), parsed.parsed))

\* case 'prompts.build' of the prompts server.
PromptsBuild(params) ==
  LET q == ParamsOrEmpty(params)
      name == q.name
      variables == q.arguments
      p == Lookup(promptNames, name)
  IN IF p = "undefined" THEN Throw("Unknown prompt: " \o ToStr(name))
     ELSE IF p = "inherited" THEN Throw(ReadingParse)
     ELSE LET entry == promptTemplates[PromptKey(ToStr(name))]
              parsed == ZodParse(entry.inputSchema, entry.keys, VariablesOrEmpty(variables))
          IN IF ~parsed.ok THEN ThrowZod(parsed.issues)
             ELSE Return(Object([prompt |-> Str(MustacheRender(entry.template, parsed.parsed))]))

\* The try block of the simple server's handleRequest.
simpleTry(method, params) ==
  IF method = Str("capability.list") THEN Return(Object([tools |-> List(simpleListCapabilities)]))
  ELSE IF method = Str("tool.call") THEN ToolCall("simple", params)
  ELSE Throw("Method not found")

\* The switch of the prompts server's handleRequest.
promptsTry(method, params) ==
  CASE method = Str("capability.list") -> Return(promptsListCapabilities)
    [] method = Str("tool.call") -> ToolCall("prompts", params)
    [] method = Str("prompts.list") -> Return(List(promptsPromptList))
    [] method = Str("prompts.build") -> PromptsBuild(params)
    [] OTHER -> Throw("Method not found")

\* The catch block of the simple server.
simpleCatch(id, err) ==
  IF err.zod
    THEN ErrorEnvelope(id, ErrorObjectData(-32602, "Invalid params", err.errors))
    ELSE ErrorEnvelope(id, ErrorObject(-32000, err.message))

\* Variant of promptsCatch: the conventional JSON-RPC code of an unknown method.
promptsCatchConventional(id, e) == ErrorEnvelope(id, ErrorObject(-32601, e.message))

\* The catch block of the prompts server.
promptsCatch(id, e) == ErrorEnvelope(id, ErrorObject(-32000, e.message))

\* `const { id, method, params } = message` throws a TypeError on null.
CanDestructure(message) == message.t \notin {"null", "undefined"}
Destructure(message) ==
  IF message.t = "object"
    THEN [id |-> message.id, method |-> message.method, params |-> message.params]
    ELSE [id |-> Undefined, method |-> Undefined, params |-> NoParams]

\* handleRequest up to its first suspension: the promise is rejected (the
\* destructuring is outside the try), an envelope is sent, or the function
\* is suspended at the await with the envelope it will send.
Outcome(kind, env) == [kind |-> kind, env |-> env]
handleRequest(srv, message) ==
  IF ~CanDestructure(message) THEN Outcome("reject", NoticeObject(""))
  ELSE LET d == Destructure(message)
           r == IF srv = "simple" THEN simpleTry(d.method, d.params)
                ELSE promptsTry(d.method, d.params)
       IN CASE r.k = "return" -> Outcome("send", ResultEnvelope(d.id, r.value))
            [] r.k = "await" -> Outcome("await", ResultEnvelope(d.id, r.value))
            [] OTHER -> Outcome("send", IF srv = "simple" THEN simpleCatch(d.id, r)
                                        ELSE promptsCatch(d.id, r))

(***************************************************************************)
(* Input lines                                                             *)
(***************************************************************************)
\* A line of input: blank, text that is not JSON, or the text of a JSON value.
BlankLine == [kind |-> "blank", value |-> Prim("undefined")]
MalformedLine == [kind |-> "malformed", value |-> Prim("undefined")]
Json(value) == [kind |-> "json", value |-> value]

\* line.trim()
TrimIsEmpty(line) == line.kind = "blank"

\* JSON.parse(line): the value, or a SyntaxError.
JSONParse(line) ==
  IF line.kind = "json" THEN [ok |-> TRUE, value |-> line.value]
  ELSE [ok |-> FALSE, value |-> Prim("undefined")]

CallTool(id, name, args) == Json(Obj(id, Str("tool.call"), Params(Str(name), args)))
BuildPrompt(id, name, args) == Json(Obj(id, Str("prompts.build"), Params(Str(name), args)))

CommonLines ==
  {BlankLine, MalformedLine,
   Json(Prim("null")), Json(Prim("number")), Json(Prim("string")),
   Json(Obj(Num(1), Str("capability.list"), NoParams)),
   Json(Obj(Undefined, Str("tools.list"), NoParams)),
   Json(Obj(Str("a"), Undefined, NoParams)),
   Json(Obj(Num(3), Str("tool.call"), NoParams)),
   CallTool(Null, "nope", EmptyObject)}

SimpleLines ==
  {CallTool(Num(2), "add", Args([a |-> Num(2), b |-> Num(5)])),
   CallTool(Num(7), "add", Args([a |-> Num(-1), b |-> Num(-4)])),
   CallTool(Num(2), "add", Args([a |-> Str("x"), b |-> Num(5)])),
   CallTool(Str("e"), "echo", Args([message |-> Str("hi"), extra |-> Num(1)])),
   CallTool(Num(4), "constructor", EmptyObject)}

PromptsLines ==
  {CallTool(Num(2), "markdown_summary", Args([content |-> Str(" # Title\n\nsome  text ")])),
   CallTool(Num(2), "markdown_summary", Args([content |-> Str("")])),
   Json(Obj(Num(5), Str("prompts.list"), NoParams)),
   BuildPrompt(Num(6), "qa/basic", Args([question |-> Str("a<b?")])),
   BuildPrompt(Num(6), "qa/basic", NoArgs)}

Lines(srv) == CommonLines \cup (IF srv = "simple" THEN SimpleLines ELSE PromptsLines)

(***************************************************************************)
(* The server process                                                      *)
(***************************************************************************)
VARIABLES
  server,      \* which of the two programs runs
  nextId,      \* `let nextId = 1` of the simple server
  out,         \* lines written to stdout, each with the input line it answers
  log,         \* input lines handed to the 'line' listener so far
  inChunk,     \* readline is emitting the lines of one chunk of input
  microtasks,  \* handleRequest calls suspended at `await tool.handler(parsed)`
  rejections,  \* rejected handleRequest promises not yet processed
  alive        \* the process has not exited

vars == <<server, nextId, out, log, inChunk, microtasks, rejections, alive>>

Banner(srv) ==
  IF srv = "simple" THEN "MCP simple demo server ready. Send JSON-RPC lines."
  ELSE "Prompts server ready"

\* send(obj): one line of output; req is the input line being answered.
send(req, obj) == Append(out, [req |-> req, line |-> Stringify(obj)])

Init ==
  /\ server \in Servers
  /\ nextId = 1
  /\ out = <<[req |-> 0, line |-> Stringify(NoticeObject(Banner(server)))]>>
  /\ log = <<>>
  /\ inChunk = FALSE
  /\ microtasks = <<>>
  /\ rejections = 0
  /\ alive = TRUE

\* A chunk of input arrives once the previous turn of the event loop is over.
Data ==
  /\ alive /\ ~inChunk
  /\ microtasks = <<>> /\ rejections = 0
  /\ Len(log) < MaxLines
  /\ inChunk' = TRUE
  /\ UNCHANGED <<server, nextId, out, log, microtasks, rejections, alive>>

\* The effect of handleRequest(msg) called from the 'line' listener.
Handle(msg) ==
  LET req == Len(log) + 1
      h == handleRequest(server, msg)
  IN /\ out' = IF h.kind = "send" THEN send(req, h.env) ELSE out
     /\ microtasks' = IF h.kind = "await"
                        THEN Append(microtasks, [req |-> req, env |-> h.env])
                        ELSE microtasks
     /\ rejections' = IF h.kind = "reject" THEN rejections + 1 ELSE rejections

\* Variant of parseError: the invalid-request code in place of the parse-error code.
parseErrorWrongCode(id) == ErrorEnvelope(id, ErrorObject(-32600, "Parse error"))

\* The envelope both servers send for a line JSON.parse rejects.
parseError(id) == ErrorEnvelope(id, ErrorObject(-32700, "Parse error"))

\* rl.on('line', ...) of the simple server
simpleOnLine(line) ==
  IF TrimIsEmpty(line) THEN UNCHANGED <<nextId, out, microtasks, rejections>>
  ELSE LET parsed == JSONParse(line)
       IN IF ~parsed.ok
            THEN /\ out' = send(Len(log) + 1, parseError(Num(nextId)))
                 /\ nextId' = nextId + 1
                 /\ UNCHANGED <<microtasks, rejections>>
            ELSE /\ Handle(parsed.value)
                 /\ UNCHANGED nextId

\* createInterface({ input }).on('line', ...) of the prompts server
promptsOnLine(line) ==
  IF TrimIsEmpty(line) THEN UNCHANGED <<nextId, out, microtasks, rejections>>
  ELSE LET parsed == JSONParse(line)
       IN IF ~parsed.ok
            THEN /\ out' = send(Len(log) + 1, parseError(Null))
                 /\ UNCHANGED <<nextId, microtasks, rejections>>
            ELSE /\ Handle(parsed.value)
                 /\ UNCHANGED nextId

\* readline emits the next line of the chunk.
OnLine ==
  /\ alive /\ inChunk
  /\ Len(log) < MaxLines
  /\ \E line \in Lines(server) :
       /\ log' = Append(log, line)
       /\ IF server = "simple" THEN simpleOnLine(line) ELSE promptsOnLine(line)
  /\ UNCHANGED <<server, inChunk, alive>>

\* The chunk's lines are all emitted; the 'data' callback returns.
EndOfChunk ==
  /\ alive /\ inChunk
  /\ inChunk' = FALSE
  /\ UNCHANGED <<server, nextId, out, log, microtasks, rejections, alive>>

\* A suspended handleRequest resumes after its await and sends the result.
Resume ==
  /\ alive /\ ~inChunk
  /\ microtasks # <<>>
  /\ out' = send(Head(microtasks).req, Head(microtasks).env)
  /\ microtasks' = Tail(microtasks)
  /\ UNCHANGED <<server, nextId, log, inChunk, rejections, alive>>

\* An unhandled rejection, processed after the microtasks: the process exits
\* (the default of Node 15 and later) ...
UnhandledRejectionThrow ==
  /\ alive /\ ~inChunk
  /\ microtasks = <<>> /\ rejections > 0
  /\ alive' = FALSE
  /\ rejections' = 0
  /\ UNCHANGED <<server, nextId, out, log, inChunk, microtasks>>

\* ... or only a warning goes to stderr (earlier Node, --unhandled-rejections=warn).
UnhandledRejectionWarn ==
  /\ alive /\ ~inChunk
  /\ microtasks = <<>> /\ rejections > 0
  /\ rejections' = 0
  /\ UNCHANGED <<server, nextId, out, log, inChunk, microtasks, alive>>

Next ==
  \/ Data
  \/ OnLine
  \/ EndOfChunk
  \/ Resume
  \/ UnhandledRejectionThrow
  \/ UnhandledRejectionWarn

Spec == Init /\ [][Next]_vars

(***************************************************************************)
(* Properties                                                              *)
(***************************************************************************)
\* The output lines that answer input line i.
Responses(i) == {k \in 1..Len(out) : out[k].req = i}

\* Nothing is left to run for the lines read so far.
Quiescent == ~inChunk /\ microtasks = <<>> /\ rejections = 0

IsJson(line) == line.kind = "json"
IsMalformed(line) == line.kind = "malformed"

\* The written envelope carries the id of the request: the same value, or
\* no id key when the request has none.
IdEchoed(line, wire) ==
  LET id == Destructure(line.value).id
  IN IF id.t = "undefined" THEN "id" \notin wire.keys
     ELSE "id" \in wire.keys /\ wire.id = id

IsErrorEnvelope(wire) == "error" \in wire.keys /\ "result" \notin wire.keys
IsResultEnvelope(wire) == "result" \in wire.keys /\ "error" \notin wire.keys

\* C1: once the server has nothing left to run, every line read that parses
\* as JSON has exactly one response envelope, carrying the request's id.
C1_EveryJsonLineAnswered ==
  Quiescent =>
    \A i \in 1..Len(log) :
      IsJson(log[i]) =>
        /\ Cardinality(Responses(i)) = 1
        /\ \A k \in Responses(i) : IdEchoed(log[i], out[k].line)

\* A request that fails after the line has been read: handleRequest rejects
\* or reaches its catch block.
Fails(srv, line) ==
  /\ IsJson(line)
  /\ LET h == handleRequest(srv, line.value)
     IN h.kind = "reject" \/ (h.kind = "send" /\ "error" \in h.env.keys)

\* C2: no failing request terminates the server, and once the server has
\* nothing left to run each failing request has exactly one error envelope.
C2_EveryFailureReported ==
  /\ alive
  /\ Quiescent =>
       \A i \in 1..Len(log) :
         Fails(server, log[i]) =>
           /\ Cardinality(Responses(i)) = 1
           /\ \A k \in Responses(i) : IsErrorEnvelope(out[k].line)

C3_Answered ==
  \A i \in 1..Len(log) :
    IsMalformed(log[i]) =>
      /\ Cardinality(Responses(i)) = 1
      /\ \A k \in Responses(i) :
           /\ IsErrorEnvelope(out[k].line)
           /\ out[k].line.error.code = -32700

C3_Step ==
  (Len(log') = Len(log) + 1 /\ IsMalformed(log'[Len(log')])) =>
    /\ Len(out') = Len(out) + 1
    /\ alive' = alive /\ inChunk' = inChunk
    /\ microtasks' = microtasks /\ rejections' = rejections

C4_MalformedIdNull ==
  \A i \in 1..Len(log) :
    IsMalformed(log[i]) =>
      \A k \in Responses(i) :
        "id" \in out[k].line.keys /\ out[k].line.id = Null

Implemented(srv) ==
  IF srv = "simple" THEN {Str("capability.list"), Str("tool.call")}
  ELSE {Str("capability.list"), Str("tool.call"), Str("prompts.list"), Str("prompts.build")}

UnknownMethod(srv, line) ==
  /\ IsJson(line)
  /\ CanDestructure(line.value)
  /\ Destructure(line.value).method \notin Implemented(srv)

\* C5: a request whose method the server does not implement (a missing
\* method included) is answered by one error envelope with the request's
\* id, code -32000, message "Method not found" and no result.
C5_UnknownMethod ==
  \A i \in 1..Len(log) :
    UnknownMethod(server, log[i]) =>
      /\ Cardinality(Responses(i)) = 1
      /\ \A k \in Responses(i) :
           /\ IsErrorEnvelope(out[k].line)
           /\ IdEchoed(log[i], out[k].line)
           /\ out[k].line.error.code = -32000
           /\ out[k].line.error.message = "Method not found"

C5_Witness ==
  \E i \in 1..Len(log) :
    /\ log[i] = Json(Obj(Str("a"), Undefined, NoParams))
    /\ \E k \in Responses(i) : out[k].line.id = Str("a")

\* The arguments of a tool.call, or the variables of a prompts.build, for a
\* registered name are rejected by that entry's schema.
SchemaRejects(srv, line) ==
  /\ IsJson(line)
  /\ CanDestructure(line.value)
  /\ LET d == Destructure(line.value)
         p == ParamsOrEmpty(d.params)
     IN \/ /\ d.method = Str("tool.call")
           /\ Lookup(toolNames(srv), p.name) = "own"
           /\ LET e == tools(srv)[ToStr(p.name)]
              IN ~ZodParse(e.schema, e.keys, p.arguments).ok
        \/ /\ srv = "prompts"
           /\ d.method = Str("prompts.build")
           /\ Lookup(promptNames, p.name) = "own"
           /\ LET e == promptTemplates[PromptKey(ToStr(p.name))]
              IN ~ZodParse(e.inputSchema, e.keys, VariablesOrEmpty(p.arguments)).ok

\* C6: arguments that fail the schema are reported with code -32602 and the
\* validation detail in data.
C6_SchemaFailureInvalidParams ==
  \A i \in 1..Len(log) :
    SchemaRejects(server, log[i]) =>
      /\ Responses(i) # {}
      /\ \A k \in Responses(i) :
           /\ IsErrorEnvelope(out[k].line)
           /\ out[k].line.error.code = -32602
           /\ "data" \in out[k].line.error.keys
           /\ out[k].line.error.data # <<>>

\* C7: every output line but the one startup notice holds exactly one of
\* the keys result and error.
C7_ExactlyOneOfResultError ==
  /\ "notice" \in out[1].line.keys
  /\ \A k \in 2..Len(out) :
       /\ "notice" \notin out[k].line.keys
       /\ ("result" \in out[k].line.keys) # ("error" \in out[k].line.keys)

C7_Witness ==
  /\ \E k \in 2..Len(out) : IsResultEnvelope(out[k].line)
  /\ \E k \in 2..Len(out) : IsErrorEnvelope(out[k].line)

\* A tool.call that names a registered tool with arguments its schema accepts.
ValidToolCall(srv, line) ==
  /\ IsJson(line)
  /\ CanDestructure(line.value)
  /\ LET d == Destructure(line.value)
         p == ParamsOrEmpty(d.params)
     IN /\ d.method = Str("tool.call")
        /\ Lookup(toolNames(srv), p.name) = "own"
        /\ LET e == tools(srv)[ToStr(p.name)]
           IN ZodParse(e.schema, e.keys, p.arguments).ok

\* What the claim says the tool returns, read off the request itself.
ExpectedResult(line, result) ==
  LET p == line.value.params
      a == p.arguments.f
  IN CASE p.name = Str("add") ->
            result = Object([sum |-> Num(a["a"].n + a["b"].n)])
       [] p.name = Str("echo") ->
            result = Object([echoed |-> a["message"],
                             length |-> Num(Len(a["message"].s))])
       [] OTHER -> result.t = "object"

\* C8: a valid tool.call is answered by a result envelope with the request's
\* id whose result is the tool's function of the arguments (add: the sum,
\* echo: the message and its length), once and with no error key.
C8_ToolCallResult ==
  \A i \in 1..Len(log) :
    ValidToolCall(server, log[i]) =>
      /\ Cardinality(Responses(i)) <= 1
      /\ Quiescent => Responses(i) # {}
      /\ \A k \in Responses(i) :
           /\ IsResultEnvelope(out[k].line)
           /\ IdEchoed(log[i], out[k].line)
           /\ ExpectedResult(log[i], out[k].line.result)

C8_Witness ==
  /\ \E i \in 1..Len(log) :
       /\ log[i] = CallTool(Num(2), "add", Args([a |-> Num(2), b |-> Num(5)]))
       /\ \E k \in Responses(i) :
            out[k].line.result = Object([sum |-> Num(7)]) /\ out[k].line.id = Num(2)
  /\ \E i \in 1..Len(log) :
       /\ ValidToolCall(server, log[i])
       /\ log[i].value.params.name = Str("echo")
       /\ Responses(i) # {}

\* C9: requests are handled one at a time: a suspended request is the last
\* line read, at most one is suspended, and the responses are written in
\* the order of their request lines.
C9_Sequential ==
  /\ Len(microtasks) <= 1
  /\ \A m \in 1..Len(microtasks) : microtasks[m].req = Len(log)
  /\ \A k1, k2 \in 1..Len(out) : k1 < k2 => out[k1].req <= out[k2].req

\* C10: the envelope written for a line depends on that line alone: the same
\* line read at two positions of a run, that is after two different
\* histories, gets the same envelope.
C10_EnvelopeDependsOnLineOnly ==
  \A i, j \in 1..Len(log) :
    log[i] = log[j] =>
      \A k1 \in Responses(i), k2 \in Responses(j) : out[k1].line = out[k2].line

====
